---------------------------- MODULE Spec2Model ----------------------------
(***************************************************************************)
(* Model of the AI-search chat client: the Tool Registry (lib/tools), the  *)
(* Parameter Editor (ParameterDisplay), the Tool Call Card (ToolCallCard)  *)
(* and the Conversation Mapper of the chat page (page.tsx).                *)
(*                                                                         *)
(* JavaScript values are tagged records [t |-> tag, v |-> payload], so     *)
(* that values of different JavaScript types can be compared.  Strings are *)
(* TLA+ strings; Len, SubSeq and \o act on them character by character.    *)
(***************************************************************************)
EXTENDS Integers, Sequences, FiniteSets, TLC

VARIABLES
    parts,              \* toolCallId -> the tool part the transport delivered, or NoPart
    isExpanded,         \* ToolCallCard state, per card
    isResultExpanded,   \* ToolCallCard state, per card
    editedArgs,         \* ToolCallCard state, per card: the local edit buffer
    hasUnsavedChanges,  \* ToolCallCard state, per card: the dirty flag
    editMode,           \* ParameterDisplay state, per card
    event,              \* the last handler that ran, with the callbacks it invoked
    chatStatus,         \* Page: the status of useChat
    chatInput,          \* Page: the text of the form's input
    call,               \* a pure function applied to an input (function checks)
    ret                 \* the value that application returned

vars == <<parts, isExpanded, isResultExpanded, editedArgs, hasUnsavedChanges,
          editMode, event, chatStatus, chatInput, call, ret>>

cardVars == <<parts, isExpanded, isResultExpanded, editedArgs,
              hasUnsavedChanges, editMode, event>>

chatVars == <<chatStatus, chatInput>>

-----------------------------------------------------------------------------
(* JavaScript values *)

Undefined == [t |-> "undefined"]

Null == [t |-> "null"]

Str(s) == [t |-> "string", v |-> s]

Num(n) == [t |-> "number", v |-> n]

Bool(b) == [t |-> "boolean", v |-> b]

\* an array of strings
Arr(a) == [t |-> "array", v |-> a]

\* a plain object: a function from its own keys to values
Obj(f) == [t |-> "object", v |-> f]

\* the empty object literal {}
EmptyObject == [k \in {} |-> Undefined]

\* ToBoolean: what `if (x)`, `x || y`, `x && y` and `!x` test
Truthy(x) ==
    CASE x.t = "undefined" -> FALSE
      [] x.t = "null"      -> FALSE
      [] x.t = "string"    -> x.v # ""
      [] x.t = "number"    -> x.v # 0
      [] x.t = "boolean"   -> x.v
      [] OTHER             -> TRUE

\* a || b
Or(a, b) == IF Truthy(a) THEN a ELSE b

\* o[k] for an own key of a function-as-object, undefined otherwise
Get(o, k) == IF k \in DOMAIN o THEN o[k] ELSE Undefined

\* { ...o, [k]: x }
Spread(o, k, x) == [j \in DOMAIN o \cup {k} |-> IF j = k THEN x ELSE o[j]]

-----------------------------------------------------------------------------
(* String.prototype operations used by the source *)

Min(a, b) == IF a < b THEN a ELSE b

CharAt(s, i) == SubSeq(s, i, i)

\* s.startsWith(p)
StartsWith(s, p) == Len(s) >= Len(p) /\ SubSeq(s, 1, Len(p)) = p

\* 1-based index of the first occurrence of p in s, 0 when there is none
IndexOf(s, p) ==
    LET hits == {i \in 1..(Len(s) - Len(p) + 1) : SubSeq(s, i, i + Len(p) - 1) = p}
    IN  IF hits = {} THEN 0 ELSE CHOOSE i \in hits : \A j \in hits : i <= j

\* s.replace(p, r) with a string pattern: only the first occurrence
ReplaceFirst(s, p, r) ==
    LET i == IndexOf(s, p)
    IN  IF i = 0 THEN s
        ELSE SubSeq(s, 1, i - 1) \o r \o SubSeq(s, i + Len(p), Len(s))

\* s.slice(0, n) for n >= 0
SliceTo(s, n) == SubSeq(s, 1, Min(Len(s), n))

WhiteSpace == {" ", "\t", "\n", "\r"}

\* s.trim()
RECURSIVE TrimStart(_)
TrimStart(s) ==
    IF Len(s) > 0 /\ CharAt(s, 1) \in WhiteSpace
    THEN TrimStart(SubSeq(s, 2, Len(s)))
    ELSE s

RECURSIVE TrimEnd(_)
TrimEnd(s) ==
    IF Len(s) > 0 /\ CharAt(s, Len(s)) \in WhiteSpace
    THEN TrimEnd(SubSeq(s, 1, Len(s) - 1))
    ELSE s

Trim(s) == TrimEnd(TrimStart(s))

\* s.split(','): always at least one segment
RECURSIVE SplitComma(_)
SplitComma(s) ==
    LET i == IndexOf(s, ",")
    IN  IF i = 0 THEN <<s>>
        ELSE <<SubSeq(s, 1, i - 1)>> \o SplitComma(SubSeq(s, i + 1, Len(s)))

\* a.map(f) for the trim of every segment
MapTrim(a) == [i \in 1..Len(a) |-> Trim(a[i])]

\* a.filter(s => s.length > 0)
RECURSIVE FilterNonEmpty(_)
FilterNonEmpty(a) ==
    IF a = <<>> THEN <<>>
    ELSE (IF Len(Head(a)) > 0 THEN <<Head(a)>> ELSE <<>>) \o FilterNonEmpty(Tail(a))

\* a.join(sep)
RECURSIVE Join(_, _)
Join(a, sep) ==
    IF a = <<>> THEN ""
    ELSE IF Len(a) = 1 THEN a[1]
    ELSE a[1] \o sep \o Join(Tail(a), sep)

-----------------------------------------------------------------------------
(* Tool Registry (lib/tools) *)

CATEGORY_OPTIONS ==
    <<"company", "research paper", "news", "pdf", "github", "tweet",
      "personal site", "financial report", "people">>

SEARCH_TYPE_OPTIONS == <<"auto", "neural", "fast">>

\* the own properties of the toolMetadata object literal
toolMetadata ==
    [exa_search |->
        [displayName |-> "Web Search", endpoint |-> "/search", icon |-> "Search",
         category |-> "search",
         availableParams |-> <<
            [key |-> "query", type |-> "text", section |-> "search", required |-> TRUE],
            [key |-> "type", type |-> "select", section |-> "search",
             default |-> Str("auto"), options |-> SEARCH_TYPE_OPTIONS],
            [key |-> "category", type |-> "select", section |-> "search",
             options |-> CATEGORY_OPTIONS],
            [key |-> "numResults", type |-> "number", section |-> "search",
             default |-> Num(5)],
            [key |-> "includeDomains", type |-> "array", section |-> "filters"],
            [key |-> "excludeDomains", type |-> "array", section |-> "filters"],
            [key |-> "startPublishedDate", type |-> "date", section |-> "filters"],
            [key |-> "endPublishedDate", type |-> "date", section |-> "filters"],
            [key |-> "includeText", type |-> "array", section |-> "filters"],
            [key |-> "excludeText", type |-> "array", section |-> "filters"] >>],
     exa_contents |->
        [displayName |-> "Get Contents", endpoint |-> "/contents", icon |-> "Globe",
         category |-> "extract",
         availableParams |-> <<
            [key |-> "urls", type |-> "array", section |-> "search", required |-> TRUE],
            [key |-> "text", type |-> "boolean", section |-> "contents",
             default |-> Bool(TRUE)],
            [key |-> "highlights", type |-> "boolean", section |-> "contents"],
            [key |-> "summary", type |-> "boolean", section |-> "contents"] >>],
     exa_find_similar |->
        [displayName |-> "Find Similar", endpoint |-> "/findSimilar", icon |-> "Copy",
         category |-> "similar",
         availableParams |-> <<
            [key |-> "url", type |-> "text", section |-> "search", required |-> TRUE],
            [key |-> "numResults", type |-> "number", section |-> "search",
             default |-> Num(5)],
            [key |-> "includeDomains", type |-> "array", section |-> "filters"],
            [key |-> "excludeDomains", type |-> "array", section |-> "filters"],
            [key |-> "category", type |-> "select", section |-> "search",
             options |-> CATEGORY_OPTIONS] >>]]

\* the registered tool identifiers
RegisteredTools == DOMAIN toolMetadata

\* toolMetadata is an object literal, so a property read that misses its own
\* keys continues along the prototype chain: these names resolve to members
\* of Object.prototype (functions, or the prototype object for __proto__)
ObjectPrototypeKeys ==
    {"constructor", "toString", "toLocaleString", "valueOf", "hasOwnProperty",
     "isPrototypeOf", "propertyIsEnumerable", "__proto__", "__defineGetter__",
     "__defineSetter__", "__lookupGetter__", "__lookupSetter__"}

\* toolMetadata[toolName]
MetadataProperty(toolName) ==
    IF toolName \in DOMAIN toolMetadata THEN Obj(toolMetadata[toolName])
    ELSE IF toolName \in ObjectPrototypeKeys THEN [t |-> "inherited", v |-> toolName]
    ELSE Undefined

\* x.p for an object value; a member of Object.prototype has none of the
\* registry's properties
Prop(x, p) ==
    IF x.t = "object" /\ p \in DOMAIN x.v THEN x.v[p] ELSE Undefined

UnknownToolEntry(toolName) ==
    [displayName |-> toolName, endpoint |-> "unknown", icon |-> "HelpCircle",
     category |-> "search", availableParams |-> <<>>]

getToolMetadata(toolName) ==
    Or(MetadataProperty(toolName), Obj(UnknownToolEntry(toolName)))

\* toolMetadata[toolName]?.availableParams || []
getToolParameters(toolName) ==
    LET entry == MetadataProperty(toolName)
        list  == IF entry.t \in {"undefined", "null"} THEN Undefined
                 ELSE IF entry.t = "object" /\ "availableParams" \in DOMAIN entry.v
                      THEN [t |-> "params", v |-> entry.v.availableParams]
                      ELSE Undefined
    IN  Or(list, [t |-> "params", v |-> <<>>]).v

-----------------------------------------------------------------------------
(* Parameter Editor (ParameterDisplay): the functions of one render *)

\* a variant of isParamUsed that tests the value's truthiness
isParamUsedTruthy(args, key) == Truthy(Get(args, key))

\* value !== undefined && value !== null && value !== ''
isParamUsed(args, key) ==
    LET value == Get(args, key)
    IN  value # Undefined /\ value # Null /\ value # Str("")

\* a variant of handleChange that passes the changed key alone
handleChangeKeyOnly(args, key, value) == [j \in {key} |-> value]

\* what handleChange hands to onChange: { ...args, [key]: value }
handleChange(args, key, value) == Spread(args, key, value)

DigitValue(c) ==
    CASE c = "0" -> 0 [] c = "1" -> 1 [] c = "2" -> 2 [] c = "3" -> 3
      [] c = "4" -> 4 [] c = "5" -> 5 [] c = "6" -> 6 [] c = "7" -> 7
      [] c = "8" -> 8 [] c = "9" -> 9

\* Number(s) for the non-empty digit strings a number input reports
RECURSIVE ToNumber(_)
ToNumber(s) ==
    IF Len(s) = 0 THEN 0
    ELSE 10 * ToNumber(SubSeq(s, 1, Len(s) - 1)) + DigitValue(CharAt(s, Len(s)))

\* a variant of the inputs' onChange value without the `|| undefined`
TextAsEntered(raw) == Str(raw)

\* e.target.value || undefined
TextOrUndefined(raw) == IF raw # "" THEN Str(raw) ELSE Undefined

\* a variant of the array input's parse that does not trim the segments
ParseArrayInputNoTrim(raw) == FilterNonEmpty(SplitComma(raw))

\* the array input's onChange: split on commas, trim, drop empty segments
ParseArrayInput(raw) == FilterNonEmpty(MapTrim(SplitComma(raw)))

\* the value the input of `param` passes to handleChange when the user
\* enters `raw` (for a boolean, clicks the toggle) while it shows `value`
InputValue(param, value, raw) ==
    CASE param.type = "select"  -> TextOrUndefined(raw)
      [] param.type = "number"  -> IF raw # "" THEN Num(ToNumber(raw)) ELSE Undefined
      [] param.type = "boolean" -> Bool(~Truthy(value))
      [] param.type = "date"    -> TextOrUndefined(raw)
      [] param.type = "array"   ->
            LET arr == ParseArrayInput(raw)
            IN  IF Len(arr) > 0 THEN Arr(arr) ELSE Undefined
      [] OTHER                  -> TextOrUndefined(raw)

\* the text the array input shows for a stored value
ArrayInputText(value) == IF value.t = "array" THEN Join(value.v, ", ") ELSE ""

\* renderValue: the text of the view-mode display of a parameter.  Only
\* values that are arrays are joined; any other value goes through String()
renderValue(param, args) ==
    LET value == Get(args, param.key)
    IN  IF ~isParamUsed(args, param.key)
        THEN (IF "default" \in DOMAIN param
              THEN (CASE param.default.t = "number"  -> ToString(param.default.v)
                      [] param.default.t = "boolean" ->
                            (IF param.default.v THEN "true" ELSE "false")
                      [] OTHER -> param.default.v) \o " (default)"
              ELSE "not set")
        ELSE IF value.t = "array"
             THEN (IF Len(value.v) = 0 THEN "none" ELSE Join(value.v, " "))
        ELSE IF value.t = "boolean" THEN (IF value.v THEN "Yes" ELSE "No")
        ELSE IF value.t = "number" THEN ToString(value.v)
        ELSE IF value.t = "string" THEN value.v
        ELSE "[object Object]"

\* the descriptor of `key` among a tool's parameters
ParamOf(toolName, key) ==
    LET ps == getToolParameters(toolName)
    IN  ps[CHOOSE i \in 1..Len(ps) : ps[i].key = key]

ParamKeys(toolName) ==
    LET ps == getToolParameters(toolName)
    IN  {ps[i].key : i \in 1..Len(ps)}

-----------------------------------------------------------------------------
(* Conversation Mapper (page.tsx) *)

\* part.type.startsWith("tool-") || part.type === "dynamic-tool"
isToolPart(part) ==
    StartsWith(part.type.v, "tool-") \/ part.type.v = "dynamic-tool"

\* a variant of the map callback without the `|| {}` default of the arguments
MapToolPartNoDefault(part) ==
    LET isStaticTool == StartsWith(part.type.v, "tool-") /\ part.type.v # "dynamic-tool"
        toolName     == IF isStaticTool
                        THEN Str(ReplaceFirst(part.type.v, "tool-", ""))
                        ELSE Get(part, "toolName")
    IN  [toolCallId |-> Get(part, "toolCallId"),
         toolName   |-> toolName,
         args       |-> Get(part, "input"),
         state      |-> Get(part, "state"),
         result     |-> Get(part, "output"),
         errorText  |-> Get(part, "errorText")]

\* the record the map callback builds for one tool part
MapToolPart(part) ==
    LET isStaticTool == StartsWith(part.type.v, "tool-") /\ part.type.v # "dynamic-tool"
        toolName     == IF isStaticTool
                        THEN Str(ReplaceFirst(part.type.v, "tool-", ""))
                        ELSE Get(part, "toolName")
    IN  [toolCallId |-> Get(part, "toolCallId"),
         toolName   |-> toolName,
         args       |-> Or(Get(part, "input"), Obj(EmptyObject)),
         state      |-> Get(part, "state"),
         result     |-> Get(part, "output"),
         errorText  |-> Get(part, "errorText")]

RECURSIVE getToolInvocations(_)
getToolInvocations(messageParts) ==
    IF messageParts = <<>> THEN <<>>
    ELSE (IF isToolPart(Head(messageParts))
          THEN <<MapToolPart(Head(messageParts))>>
          ELSE <<>>) \o getToolInvocations(Tail(messageParts))

\* a variant of getToolStatus that reports a streaming input as pending
getToolStatusStreamingPending(state) ==
    IF state = Str("output-available") THEN "completed"
    ELSE IF state = Str("output-error") THEN "error"
    ELSE IF state = Str("input-available") THEN "running"
    ELSE "pending"

getToolStatus(state) ==
    IF state = Str("output-available") THEN "completed"
    ELSE IF state = Str("output-error") THEN "error"
    ELSE IF state = Str("input-available") THEN "running"
    ELSE IF state = Str("input-streaming") THEN "running"
    ELSE "pending"

-----------------------------------------------------------------------------
(* Tool Call Card (ToolCallCard): the header of one render *)

\* String(x), and `${x}` in a template literal
ToStr(x) ==
    CASE x.t = "undefined" -> "undefined"
      [] x.t = "null"      -> "null"
      [] x.t = "string"    -> x.v
      [] x.t = "number"    -> ToString(x.v)
      [] x.t = "boolean"   -> (IF x.v THEN "true" ELSE "false")
      [] x.t = "array"     -> Join(x.v, ",")
      [] OTHER             -> "[object Object]"

\* x?.[0]: undefined for undefined and null, the first element of an array,
\* the first character of a string, undefined for anything else
FirstOf(x) ==
    IF x.t \in {"string", "array"} /\ Len(x.v) > 0
    THEN Str(IF x.t = "array" THEN x.v[1] ELSE CharAt(x.v, 1))
    ELSE Undefined

\* args.query || args.url || args.urls?.[0] || ''
primaryParam(args) ==
    Or(Or(Or(Get(args, "query"), Get(args, "url")), FirstOf(Get(args, "urls"))), Str(""))

LabelLimit == 60

\* a variant of the label that is cut without the ellipsis
PrimaryLabelNoEllipsis(args) ==
    LET p == primaryParam(args)
    IN  IF Truthy(p) THEN <<SliceTo(ToStr(p), LabelLimit)>> ELSE <<>>

\* the <p> of the label, when there is one: the first 60 characters of the
\* primary parameter, then '...' when it has more
PrimaryLabel(args) ==
    LET p == primaryParam(args)
    IN  IF Truthy(p)
        THEN <<SliceTo(ToStr(p), LabelLimit)
                \o (IF Len(ToStr(p)) > LabelLimit THEN "..." ELSE "")>>
        ELSE <<>>

\* x.length: defined for strings and arrays only
LengthOf(x) ==
    IF x.t \in {"string", "array"} THEN Num(Len(x.v)) ELSE Undefined

\* x.length > 0
HasPositiveLength(x) == LengthOf(x) # Undefined /\ LengthOf(x).v > 0

\* getParamsSummary: the chips it collects from the upstream arguments, or
\* the TypeError of calling .join on a value that is not an array
getParamsSummary(args) ==
    LET type    == Get(args, "type")
        cat     == Get(args, "category")
        n       == Get(args, "numResults")
        domains == Get(args, "includeDomains")
        inDomains == Truthy(domains) /\ HasPositiveLength(domains)
        chips ==
            (IF Truthy(type) /\ type # Str("auto")
             THEN <<"type: " \o ToStr(type)>> ELSE <<>>)
            \o (IF Truthy(cat) THEN <<"category: " \o ToStr(cat)>> ELSE <<>>)
            \o (IF Truthy(n) /\ n # Num(5)
                THEN <<"results: " \o ToStr(n)>> ELSE <<>>)
            \o (IF inDomains /\ domains.t = "array"
                THEN <<"domains: " \o Join(domains.v, ", ")>> ELSE <<>>)
            \o (IF Truthy(Get(args, "startPublishedDate"))
                    \/ Truthy(Get(args, "endPublishedDate"))
                THEN <<"date filter">> ELSE <<>>)
    IN  IF inDomains /\ domains.t # "array"
        THEN [raised |-> TRUE, chips |-> <<>>]
        ELSE [raised |-> FALSE, chips |-> chips]

SummaryLimit == 3

\* the chips of the header: paramsSummary.slice(0, 3), in the collapsed view
SummaryChips(args, expanded) ==
    LET summary == getParamsSummary(args).chips
    IN  IF ~expanded /\ Len(summary) > 0
        THEN SubSeq(summary, 1, Min(Len(summary), SummaryLimit))
        ELSE <<>>

-----------------------------------------------------------------------------
(* Tool Call Card (ToolCallCard): the result preview of one render *)

PreviewLimit == 2000

\* the string literal inside the notice's expression container: its braces
\* are characters of the literal, not an interpolation
TruncationNoticeText == "\n\n... truncated ({result.length - 2000} more characters)"

\* the children of the <pre> of an expanded result panel: the text shown
\* and the notice spans that follow it
ResultPreview(result) ==
    [text   |-> SliceTo(result, PreviewLimit),
     notice |-> IF Len(result) > PreviewLimit THEN <<TruncationNoticeText>> ELSE <<>>]

-----------------------------------------------------------------------------
(* Chat Page (page.tsx): one Tool Call Card per tool part, keyed by its     *)
(* toolCallId                                                               *)

CallIds == {"call_1", "call_2"}

\* no part with this toolCallId has been delivered: no card is mounted
NoPart == [absent |-> TRUE]

Mounted(c) == parts[c] # NoPart

\* the invocation record the page maps the card's part to
Invocation(c) == MapToolPart(parts[c])

\* the props the page passes to the card
ToolNameProp(c) == Invocation(c).toolName.v

ArgsProp(c) == Invocation(c).args.v

StatusProp(c) == getToolStatus(Invocation(c).state)

\* JSON.stringify of a value that is not a string (tool outputs are arrays)
JsonOfOutput(x) ==
    CASE x.t = "null"    -> "null"
      [] x.t = "number"  -> ToString(x.v)
      [] x.t = "boolean" -> IF x.v THEN "true" ELSE "false"
      [] x.t = "array"   ->
            "[" \o Join([i \in 1..Len(x.v) |-> "\"" \o x.v[i] \o "\""], ",") \o "]"

\* inv.result !== undefined ? (string ? inv.result : JSON.stringify) : undefined
ResultOf(inv) ==
    LET r == inv.result
    IN  IF r # Undefined
        THEN (IF r.t = "string" THEN r ELSE Str(JsonOfOutput(r)))
        ELSE Undefined

ResultProp(c) == ResultOf(Invocation(c))

\* the props of the cards the page renders for the parts of one message
CardProps(messageParts) ==
    LET invs == getToolInvocations(messageParts)
    IN  [i \in 1..Len(invs) |->
            [toolName |-> invs[i].toolName,
             args     |-> invs[i].args,
             result   |-> ResultOf(invs[i]),
             status   |-> getToolStatus(invs[i].state)]]

\* part.type.startsWith throws a TypeError when the type is not a string
MapperThrows(messageParts) ==
    \E i \in 1..Len(messageParts) : Get(messageParts[i], "type").t # "string"

\* one evaluation of the page's mapping of a message: whether it raised, the
\* invocation records and the props of the cards
MapperRun(messageParts) ==
    IF MapperThrows(messageParts)
    THEN [raised |-> TRUE, invs |-> <<>>, cards |-> <<>>]
    ELSE [raised |-> FALSE, invs |-> getToolInvocations(messageParts),
          cards |-> CardProps(messageParts)]

\* the page passes every card an onRerun callback
HasOnRerun(c) == TRUE

\* JSON.stringify(newArgs, null, 2): the JSON document, which has no member
\* for a key whose value is undefined
JsonOfArgs(newArgs) ==
    [k \in {j \in DOMAIN newArgs : newArgs[j] # Undefined} |-> newArgs[k]]

\* a variant of handleRerunTool whose prompt leaves the parameters out
handleRerunToolNameOnly(toolName, newArgs) ==
    [text |-> <<"Please run the ", toolName, " tool again">>]

\* handleRerunTool: the argument of its one sendMessage call
handleRerunTool(toolName, newArgs) ==
    [text |-> <<"Please run the ", toolName,
                " tool again with these parameters: ", JsonOfArgs(newArgs)>>]

-----------------------------------------------------------------------------
(* Tool Call Card and its Parameter Editor *)

\* a variant of the editable prop that ignores the status
EditableAlways(c) == TRUE

\* status === 'completed' || status === 'error'
Editable(c) == StatusProp(c) = "completed" \/ StatusProp(c) = "error"

\* the Parameter Editor is rendered inside the expanded content only
EditorMounted(c) == Mounted(c) /\ isExpanded[c]

\* the editor's full layout; with no descriptors it lists the raw arguments
EditorHasParams(c) == Len(getToolParameters(ToolNameProp(c))) > 0

\* the "Edit parameters" / "Done editing" button is rendered
EditToggleOffered(c) == EditorMounted(c) /\ EditorHasParams(c) /\ Editable(c)

\* renderParamRow renders inputs instead of values
InputsRendered(c) ==
    EditorMounted(c) /\ EditorHasParams(c) /\ editMode[c] /\ Editable(c)

\* the "Re-run with changes" button is rendered
RerunOffered(c) == Mounted(c) /\ isExpanded[c] /\ HasOnRerun(c) /\ Editable(c)

\* a variant of the result section that is rendered in the collapsed card too
ResultSectionShownAnywhere(c) == Mounted(c) /\ Truthy(ResultProp(c))

\* the result section is rendered: {result && ...} inside the expanded content
ResultSectionShown(c) == Mounted(c) /\ isExpanded[c] /\ Truthy(ResultProp(c))

\* the result text is rendered: {isResultExpanded && ...} inside the section
ResultContentShown(c) == ResultSectionShown(c) /\ isResultExpanded[c]

\* the text an input shows for the stored value
DisplayedText(param, value) ==
    CASE param.type = "array"  -> ArrayInputText(value)
      [] param.type = "number" ->
            IF value.t = "number" THEN ToString(value.v) ELSE ""
      [] OTHER                 -> IF Truthy(value) /\ value.t = "string" THEN value.v ELSE ""

\* a variant of the effect without the hasUnsavedChanges test
SyncEffectAlways(dirty, args, buffer) == args

\* a variant of the effect that never resets the buffer
SyncEffectNever(dirty, args, buffer) == buffer

\* the effect on [args, hasUnsavedChanges]: the buffer it leaves
SyncEffect(dirty, args, buffer) == IF ~dirty THEN args ELSE buffer

\* the effect runs after a render in which one of its dependencies changed
AfterRender(depsChanged, dirty, args, buffer) ==
    IF depsChanged THEN SyncEffect(dirty, args, buffer) ELSE buffer

\* a variant of handleRerun that leaves the dirty flag as it is
handleRerunKeepsDirty(c) ==
    IF HasOnRerun(c)
    THEN [reruns |-> <<editedArgs[c]>>, dirty |-> hasUnsavedChanges[c]]
    ELSE [reruns |-> <<>>, dirty |-> hasUnsavedChanges[c]]

\* handleRerun: the onRerun calls it makes and the dirty flag it leaves
handleRerun(c) ==
    IF HasOnRerun(c)
    THEN [reruns |-> <<editedArgs[c]>>, dirty |-> FALSE]
    ELSE [reruns |-> <<>>, dirty |-> hasUnsavedChanges[c]]

\* a variant of handleDoneEditing without the hasUnsavedChanges test
handleDoneEditingAlways(c) == handleRerun(c)

\* handleDoneEditing
handleDoneEditing(c) ==
    IF hasUnsavedChanges[c]
    THEN handleRerun(c)
    ELSE [reruns |-> <<>>, dirty |-> hasUnsavedChanges[c]]

\* sendMessage: useChat reports the request as submitted; one call per
\* onRerun call of the handler
StatusAfterSends(reruns) == IF reruns # <<>> THEN "submitted" ELSE chatStatus

\* the record of a handler run: what ran, on which card, for an input's
\* onChange the key and the text entered, the ArgumentSets the editor passed
\* to onChange, the onRerun calls and the sendMessage calls the handler made,
\* and the handler that ran before it, with its onRerun calls
EvRec(kind, c, key, raw, changes, reruns, sends) ==
    [kind |-> kind, card |-> c, key |-> key, raw |-> raw, changes |-> changes,
     reruns |-> reruns, sends |-> sends,
     prevKind |-> event.kind, prevCard |-> event.card, prevReruns |-> event.reruns]

\* the page's onRerun prop: (newArgs) => handleRerunTool(inv.toolName, newArgs)
Ev(kind, c, reruns) ==
    EvRec(kind, c, "none", "none", <<>>, reruns,
          [i \in 1..Len(reruns) |-> handleRerunTool(ToolNameProp(c), reruns[i])])

\* the transport delivers the first part of a tool call: the page renders a
\* new card, whose state starts from the useState initial values
PartArrives(c, part) ==
    /\ ~Mounted(c)
    /\ parts' = [parts EXCEPT ![c] = part]
    /\ isExpanded' = [isExpanded EXCEPT ![c] = FALSE]
    /\ isResultExpanded' = [isResultExpanded EXCEPT ![c] = FALSE]
    /\ hasUnsavedChanges' = [hasUnsavedChanges EXCEPT ![c] = FALSE]
    /\ editedArgs' = [editedArgs EXCEPT ![c] =
            AfterRender(TRUE, FALSE, ArgsProp(c)', ArgsProp(c)')]
    /\ editMode' = [editMode EXCEPT ![c] = FALSE]
    /\ event' = EvRec("mount", c, "none", "none", <<>>, <<>>, <<>>)
    /\ UNCHANGED <<chatVars, call, ret>>

LifecycleRank(state) ==
    CASE state = Undefined              -> 0
      [] state = Str("input-streaming") -> 1
      [] state = Str("input-available") -> 2
      [] OTHER                          -> 3

\* the transport delivers a later version of the card's part: the state is
\* the same or a more advanced one; the args prop is a new object
PartUpdate(c, part) ==
    /\ Mounted(c)
    /\ part # parts[c]
    /\ part.type = parts[c].type
    /\ Get(part, "toolName") = Get(parts[c], "toolName")
    /\ LifecycleRank(Get(part, "state")) >= LifecycleRank(Get(parts[c], "state"))
    /\ LifecycleRank(Get(parts[c], "state")) = 3 => part.state = parts[c].state
    /\ parts' = [parts EXCEPT ![c] = part]
    /\ editedArgs' = [editedArgs EXCEPT ![c] =
            AfterRender(TRUE, hasUnsavedChanges[c], ArgsProp(c)', editedArgs[c])]
    /\ event' = Ev("upstream", c, <<>>)
    /\ UNCHANGED <<isExpanded, isResultExpanded, hasUnsavedChanges, editMode, chatVars, call, ret>>

\* a variant of the header button whose expanded flag is one flag of the
\* page, shared by all cards
HeaderClickShared(c) ==
    /\ Mounted(c)
    /\ isExpanded' = [d \in CallIds |-> ~isExpanded[c]]
    /\ editMode' = [d \in CallIds |-> FALSE]
    /\ event' = Ev("header", c, <<>>)
    /\ UNCHANGED <<parts, isResultExpanded, editedArgs, hasUnsavedChanges, chatVars, call, ret>>

\* the header button: setIsExpanded(!isExpanded).  Collapsing unmounts the
\* Parameter Editor, and expanding mounts a new one, in view mode
HeaderClick(c) ==
    /\ Mounted(c)
    /\ isExpanded' = [isExpanded EXCEPT ![c] = ~isExpanded[c]]
    /\ editMode' = [editMode EXCEPT ![c] = FALSE]
    /\ event' = Ev("header", c, <<>>)
    /\ UNCHANGED <<parts, isResultExpanded, editedArgs, hasUnsavedChanges, chatVars, call, ret>>

\* the result section's button: setIsResultExpanded(!isResultExpanded)
ResultToggle(c) ==
    /\ ResultSectionShown(c)
    /\ isResultExpanded' = [isResultExpanded EXCEPT ![c] = ~isResultExpanded[c]]
    /\ event' = Ev("resultToggle", c, <<>>)
    /\ UNCHANGED <<parts, isExpanded, editedArgs, hasUnsavedChanges, editMode, chatVars, call, ret>>

\* the edit toggle's onClick: setEditMode(!editMode), and onDoneEditing()
\* when it leaves edit mode
EditToggle(c) ==
    /\ EditToggleOffered(c)
    /\ LET done == IF editMode[c]
                   THEN handleDoneEditing(c)
                   ELSE [reruns |-> <<>>, dirty |-> hasUnsavedChanges[c]]
       IN  /\ editMode' = [editMode EXCEPT ![c] = ~editMode[c]]
           /\ hasUnsavedChanges' = [hasUnsavedChanges EXCEPT ![c] = done.dirty]
           /\ editedArgs' = [editedArgs EXCEPT ![c] =
                   AfterRender(done.dirty # hasUnsavedChanges[c], done.dirty,
                               ArgsProp(c), editedArgs[c])]
           /\ event' = Ev("editToggle", c, done.reruns)
           /\ chatStatus' = StatusAfterSends(done.reruns)
    /\ UNCHANGED <<parts, isExpanded, isResultExpanded, chatInput, call, ret>>

\* a variant of handleArgsChange that does not mark the session dirty
handleArgsChangeClean(newArgs) == [buffer |-> newArgs, dirty |-> FALSE]

\* handleArgsChange: the buffer and the dirty flag it sets
handleArgsChange(newArgs) == [buffer |-> newArgs, dirty |-> TRUE]

\* an input's onChange: the user enters `raw` into the input of `key` (or
\* clicks it, for a boolean): handleChange, then the card's handleArgsChange
ParamChange(c, key, raw) ==
    /\ InputsRendered(c)
    /\ key \in ParamKeys(ToolNameProp(c))
    /\ LET param == ParamOf(ToolNameProp(c), key)
           value == Get(editedArgs[c], key)
           newArgs == handleChange(editedArgs[c], key, InputValue(param, value, raw))
           set   == handleArgsChange(newArgs)
       IN  /\ param.type # "boolean" => raw # DisplayedText(param, value)
           /\ hasUnsavedChanges' = [hasUnsavedChanges EXCEPT ![c] = set.dirty]
           /\ editedArgs' = [editedArgs EXCEPT ![c] =
                   AfterRender(set.dirty # hasUnsavedChanges[c], set.dirty,
                               ArgsProp(c), set.buffer)]
           /\ event' = EvRec("paramChange", c, key, raw, <<newArgs>>, <<>>, <<>>)
    /\ UNCHANGED <<parts, isExpanded, isResultExpanded, editMode, chatVars, call, ret>>

\* the "Re-run with changes" button: handleRerun
RerunClick(c) ==
    /\ RerunOffered(c)
    /\ LET run == handleRerun(c)
       IN  /\ hasUnsavedChanges' = [hasUnsavedChanges EXCEPT ![c] = run.dirty]
           /\ editedArgs' = [editedArgs EXCEPT ![c] =
                   AfterRender(run.dirty # hasUnsavedChanges[c], run.dirty,
                               ArgsProp(c), editedArgs[c])]
           /\ event' = Ev("rerunClick", c, run.reruns)
           /\ chatStatus' = StatusAfterSends(run.reruns)
    /\ UNCHANGED <<parts, isExpanded, isResultExpanded, editMode, chatInput, call, ret>>

-----------------------------------------------------------------------------
(* The environment: what the transport delivers and what the user enters *)

LifecycleStates ==
    {"input-streaming", "input-available", "output-available", "output-error"}

\* a part as the transport delivers it: only the fields present so far
Part(c, tag, state, input, output) ==
    [type |-> Str(tag.type), toolCallId |-> Str(c)]
        @@ (IF state # Undefined THEN [state |-> state] ELSE EmptyObject)
        @@ (IF tag.toolName # Undefined THEN [toolName |-> tag.toolName] ELSE EmptyObject)
        @@ (IF input # Undefined THEN [input |-> input] ELSE EmptyObject)
        @@ (IF output # Undefined THEN [output |-> output] ELSE EmptyObject)

\* the tags of a static registered tool, a dynamic tool and an unregistered tool
ToolTags ==
    {[type |-> "tool-exa_search", toolName |-> Undefined],
     [type |-> "dynamic-tool", toolName |-> Str("exa_contents")],
     [type |-> "tool-web_fetch", toolName |-> Undefined]}

\* the inputs a part of this tag carries: none yet, or a streamed object
SampleInputs(tag) ==
    IF tag.type = "tool-exa_search"
    THEN {Undefined,
          Obj([query |-> Str("rust ownership")]),
          Obj([query |-> Str("rust ownership"), numResults |-> Num(10)])}
    ELSE IF tag.type = "dynamic-tool"
    THEN {Undefined, Obj([urls |-> Arr(<<"a">>)])}
    ELSE {Undefined, Obj([path |-> Str("x")])}

SampleOutputs(state) ==
    IF state = "output-available" THEN {Str("ok")} ELSE {Undefined}

\* a first part: no input yet, the state not yet set or input-streaming
ArrivingParts(c, tags) ==
    {Part(c, tag, state, Undefined, Undefined) :
        tag \in tags, state \in {Undefined, Str("input-streaming")}}

\* the later versions of a part of this tag, carrying one of these inputs
PartVersions(c, tag, inputs) ==
    UNION {{Part(c, tag, Str(state), input, output) :
                input \in inputs, output \in SampleOutputs(state)} :
            state \in LifecycleStates}

LaterParts(c) == UNION {PartVersions(c, tag, SampleInputs(tag)) : tag \in ToolTags}

\* what the user enters into the input of a parameter of this type
StepInputs(param) ==
    CASE param.type = "select"  -> {"", param.options[2]}
      [] param.type = "number"  -> {"", "0", "10"}
      [] param.type = "boolean" -> {"click"}
      [] param.type = "date"    -> {"", "2024-01-01"}
      [] param.type = "array"   -> {"", "a, b, b"}
      [] OTHER                  -> {"", "rust"}

\* the parameters the user edits
StepKeys == {"query", "numResults", "urls", "text"}

-----------------------------------------------------------------------------
(* Specifications *)

NoCall == [fn |-> "none"]

NoRet == [done |-> FALSE]

NoEvent ==
    [kind |-> "none", card |-> "none", key |-> "none", raw |-> "none",
     changes |-> <<>>, reruns |-> <<>>, sends |-> <<>>,
     prevKind |-> "none", prevCard |-> "none", prevReruns |-> <<>>]

\* the page before any tool part has been delivered
Init ==
    /\ parts = [c \in CallIds |-> NoPart]
    /\ isExpanded = [c \in CallIds |-> FALSE]
    /\ isResultExpanded = [c \in CallIds |-> FALSE]
    /\ editedArgs = [c \in CallIds |-> EmptyObject]
    /\ hasUnsavedChanges = [c \in CallIds |-> FALSE]
    /\ editMode = [c \in CallIds |-> FALSE]
    /\ event = NoEvent
    /\ chatStatus = "ready"
    /\ chatInput = ""
    /\ call = NoCall
    /\ ret = NoRet

\* the cards of the card specification
SpecCards == {"call_1"}

Next ==
    \E c \in SpecCards :
        \/ \E part \in ArrivingParts(c, ToolTags) : PartArrives(c, part)
        \/ \E part \in LaterParts(c) : PartUpdate(c, part)
        \/ HeaderClick(c)
        \/ ResultToggle(c)
        \/ EditToggle(c)
        \/ \E key \in (IF Mounted(c) THEN StepKeys \cap ParamKeys(ToolNameProp(c)) ELSE {}) :
              \E raw \in StepInputs(ParamOf(ToolNameProp(c), key)) :
                  ParamChange(c, key, raw)
        \/ RerunClick(c)

Spec == Init /\ [][Next]_vars

\* The editing specification: one card of a registered tool whose array
\* parameter the user edits with any text over a small alphabet.

MaxTextLen == 3

TextAlphabet == {"a", ",", " "}

RECURSIVE Texts(_)
Texts(n) ==
    IF n = 0 THEN {""}
    ELSE LET shorter == Texts(n - 1)
         IN  shorter \cup {t \o ch : t \in shorter, ch \in TextAlphabet}

\* every text over the alphabet, and texts whose segments differ
EditTexts == Texts(MaxTextLen) \cup {"a, b, b", "b,a", " b ,a,b"}

EditTags == {tag \in ToolTags : tag.type = "tool-exa_search"}

EditInputs(tag) ==
    {Obj([query |-> Str("rust ownership"), includeDomains |-> Arr(<<"a", "b">>)])}

EditParts(c) == UNION {PartVersions(c, tag, EditInputs(tag)) : tag \in EditTags}

EditKeys == {"includeDomains"}

NextEdit ==
    \E c \in SpecCards :
        \/ \E part \in ArrivingParts(c, EditTags) : PartArrives(c, part)
        \/ \E part \in EditParts(c) : PartUpdate(c, part)
        \/ HeaderClick(c)
        \/ EditToggle(c)
        \/ \E key \in (IF Mounted(c) THEN EditKeys \cap ParamKeys(ToolNameProp(c)) ELSE {}) :
              \E raw \in EditTexts : ParamChange(c, key, raw)

SpecEdit == Init /\ [][NextEdit]_vars

\* The two-card specification: two invocations of one tool in a message,
\* each with its own card; the user edits the query of either.

TwoTags == {tag \in ToolTags : tag.type = "tool-exa_search"}

TwoInputs == {Obj([query |-> Str("rust ownership")])}

TwoParts(c) == UNION {PartVersions(c, tag, TwoInputs) : tag \in TwoTags}

TwoKeys == {"query"}

NextTwo ==
    \E c \in CallIds :
        \/ \E part \in ArrivingParts(c, TwoTags) : PartArrives(c, part)
        \/ \E part \in TwoParts(c) : PartUpdate(c, part)
        \/ HeaderClick(c)
        \/ ResultToggle(c)
        \/ EditToggle(c)
        \/ \E key \in (IF Mounted(c) THEN TwoKeys \cap ParamKeys(ToolNameProp(c)) ELSE {}) :
              \E raw \in StepInputs(ParamOf(ToolNameProp(c), key)) :
                  ParamChange(c, key, raw)
        \/ RerunClick(c)

SpecTwo == Init /\ [][NextTwo]_vars

-----------------------------------------------------------------------------
(* The page: the form, the chat status and one card *)

\* isLoading = status === "streaming" || status === "submitted"
isLoading == chatStatus \in {"streaming", "submitted"}

\* the record of a handler of the page, with the sendMessage calls it made
PageEv(kind, sends) == EvRec(kind, "none", "none", "none", <<>>, <<>>, sends)

\* the input's onChange: setInput(e.target.value); the input is disabled
\* while isLoading
InputChange(text) ==
    /\ ~isLoading
    /\ text # chatInput
    /\ chatInput' = text
    /\ event' = PageEv("input", <<>>)
    /\ UNCHANGED <<parts, isExpanded, isResultExpanded, editedArgs,
                   hasUnsavedChanges, editMode, chatStatus, call, ret>>

\* handleSubmit: the sendMessage calls it makes, and the input it leaves
handleSubmit ==
    IF Trim(chatInput) = "" \/ isLoading
    THEN [sends |-> <<>>, input |-> chatInput]
    ELSE [sends |-> <<[text |-> <<chatInput>>]>>, input |-> ""]

\* the form's onSubmit
Submit ==
    /\ LET run == handleSubmit
       IN  /\ chatStatus' = StatusAfterSends(run.sends)
           /\ chatInput' = run.input
           /\ event' = PageEv("submit", run.sends)
    /\ UNCHANGED <<parts, isExpanded, isResultExpanded, editedArgs,
                   hasUnsavedChanges, editMode, call, ret>>

\* the Stop button, rendered while isLoading: handleStop calls stop()
Stop ==
    /\ isLoading
    /\ chatStatus' = "ready"
    /\ event' = PageEv("stop", <<>>)
    /\ UNCHANGED <<parts, isExpanded, isResultExpanded, editedArgs,
                   hasUnsavedChanges, editMode, chatInput, call, ret>>

\* the transport receives the first chunk of the response
ResponseStarts ==
    /\ chatStatus = "submitted"
    /\ chatStatus' = "streaming"
    /\ event' = PageEv("responseStarts", <<>>)
    /\ UNCHANGED <<parts, isExpanded, isResultExpanded, editedArgs,
                   hasUnsavedChanges, editMode, chatInput, call, ret>>

\* the transport settles the request: the response ends, or it fails
ResponseEnds(outcome) ==
    /\ isLoading
    /\ outcome = "ready" => chatStatus = "streaming"
    /\ chatStatus' = outcome
    /\ event' = PageEv("responseEnds", <<>>)
    /\ UNCHANGED <<parts, isExpanded, isResultExpanded, editedArgs,
                   hasUnsavedChanges, editMode, chatInput, call, ret>>

\* what the user types into the form
PageTexts == {"", " ", "find rust"}

PageKeys == {"query"}

\* tool parts are delivered while the response streams
NextPage ==
    \/ \E text \in PageTexts : InputChange(text)
    \/ Submit
    \/ Stop
    \/ ResponseStarts
    \/ \E outcome \in {"ready", "error"} : ResponseEnds(outcome)
    \/ \E c \in SpecCards :
        \/ \E part \in ArrivingParts(c, TwoTags) :
              chatStatus = "streaming" /\ PartArrives(c, part)
        \/ \E part \in TwoParts(c) :
              chatStatus = "streaming" /\ PartUpdate(c, part)
        \/ HeaderClick(c)
        \/ EditToggle(c)
        \/ \E key \in (IF Mounted(c) THEN PageKeys \cap ParamKeys(ToolNameProp(c)) ELSE {}) :
              \E raw \in StepInputs(ParamOf(ToolNameProp(c), key)) :
                  ParamChange(c, key, raw)
        \/ RerunClick(c)

SpecPage == Init /\ [][NextPage]_vars

-----------------------------------------------------------------------------
(* Function checks: a function of the source applied to one input *)

MaxArgKeys == 2

MaxParts == 2

ArgKeyPool == <<"query", "numResults", "text", "urls">>

SampleArgKeys == {ArgKeyPool[i] : i \in 1..Min(MaxArgKeys, Len(ArgKeyPool))}

SampleValues ==
    {Undefined, Null, Str(""), Str("a"), Num(0), Num(5), Bool(FALSE), Bool(TRUE),
     Arr(<<>>), Arr(<<"a">>)}

\* the ArgumentSets over the sample keys: any subset present, any value
SampleArgSets == UNION {[S -> SampleValues] : S \in SUBSET SampleArgKeys}

\* tool identifiers: the registered ones and identifiers that are not
ToolIdentifiers ==
    RegisteredTools \cup ObjectPrototypeKeys
        \cup {"", "web_fetch", "exa", "EXA_SEARCH", "exa_search ", "undefined"}

SampleTypeTags ==
    {"text", "reasoning", "step-start", "tool", "xtool-a", "tool-", "tool-exa_search",
     "tool-tool-x", "dynamic-tool", "dynamic-tool-x"}

SampleStates == {Undefined, Str("done")} \cup {Str(st) : st \in LifecycleStates}

\* message parts: any tag, any state (or none), a toolName field on some
SampleParts ==
    {[type |-> Str(tag)]
        @@ (IF state # Undefined THEN [state |-> state] ELSE EmptyObject)
        @@ (IF tag = "dynamic-tool" THEN [toolName |-> Str("exa_contents")] ELSE EmptyObject)
        @@ (IF tag = "tool-exa_search"
            THEN [input |-> Obj([query |-> Str("rust ownership")])] ELSE EmptyObject) :
        tag \in SampleTypeTags, state \in SampleStates}

\* the tags of partially populated tool parts: a static tool, a dynamic
\* tool, and a dynamic tool whose toolName has not arrived
PartialTags ==
    {[type |-> "tool-exa_search", toolName |-> Undefined],
     [type |-> "dynamic-tool", toolName |-> Str("exa_contents")],
     [type |-> "dynamic-tool", toolName |-> Undefined]}

\* tool parts with any of the state, input and output fields missing, an
\* unrecognized state, a null input; and a text part
PartialParts ==
    {Part("call_1", tag, state, input, output) :
        tag \in PartialTags,
        state \in {Undefined, Str("done"), Str("output-available")},
        input \in {Undefined, Null, Obj([query |-> Str("rust ownership")])},
        output \in {Undefined, Str("ok")}}
    \cup {[type |-> Str("text"), text |-> Str("hello")]}

\* upstream ArgumentSets for the header: each key absent or holding one of
\* the values listed for it
HeaderSamples ==
    [type               |-> {Str("auto"), Str("neural")},
     category           |-> {Str("news")},
     numResults         |-> {Undefined, Null, Num(0), Num(1), Num(5), Num(10), Num(100)},
     includeDomains     |-> {Arr(<<>>), Arr(<<"a", "b">>), Str("a.com")},
     startPublishedDate |-> {Str("2024-01-01")}]

HeaderArgSets ==
    UNION {{f \in [S -> UNION {HeaderSamples[k] : k \in S}] :
                \A k \in S : f[k] \in HeaderSamples[k]} :
            S \in SUBSET DOMAIN HeaderSamples}

\* every descriptor of every registered tool
AllParams ==
    UNION {{toolMetadata[name].availableParams[i] :
                i \in 1..Len(toolMetadata[name].availableParams)} :
            name \in RegisteredTools}

\* the values an input may show before the user changes it
StoredSamples ==
    {Undefined, Str("news"), Str("2023-05-05"), Num(5), Bool(TRUE), Bool(FALSE),
     Arr(<<"a">>)}

RECURSIVE SeqsUpTo(_, _)
SeqsUpTo(S, n) ==
    IF n = 0 THEN {<<>>}
    ELSE LET shorter == SeqsUpTo(S, n - 1)
         IN  shorter \cup {Append(q, x) : q \in shorter, x \in S}

\* s repeated n times
RECURSIVE Repeat(_, _)
Repeat(s, n) ==
    IF n = 0 THEN ""
    ELSE IF n % 2 = 0 THEN LET h == Repeat(s, n \div 2) IN h \o h
    ELSE s \o Repeat(s, n - 1)

\* a result text of length n >= 2 whose first and last characters differ
\* from the rest
ResultText(n) == "h" \o Repeat("x", n - 2) \o "t"

\* a text of length n >= 2 that starts with `first`
LabelText(first, n) == first \o Repeat("x", n - 2) \o "t"

LabelLengths == {2, LabelLimit - 1, LabelLimit, LabelLimit + 1, 2 * LabelLimit}

\* upstream ArgumentSets for the label: each key absent or holding one of
\* the values listed for it
LabelSamples ==
    [query |-> {Str("")} \cup {Str(LabelText("q", n)) : n \in LabelLengths},
     url   |-> {Str("")} \cup {Str(LabelText("u", n)) : n \in LabelLengths},
     urls  |-> {Arr(<<>>)} \cup {Arr(<<LabelText("a", n), "b">>) : n \in LabelLengths}]

LabelArgSets ==
    UNION {{f \in [S -> UNION {LabelSamples[k] : k \in S}] :
                \A k \in S : f[k] \in LabelSamples[k]} :
            S \in SUBSET DOMAIN LabelSamples}

SampleResultLengths ==
    {2, 3, 500, PreviewLimit - 1, PreviewLimit, PreviewLimit + 1, PreviewLimit + 2,
     PreviewLimit + 500, 2 * PreviewLimit, 2 * PreviewLimit + 7}

InitCalls ==
    \/ \E args \in SampleArgSets, key \in SampleArgKeys \cup {"category"} :
            call = [fn |-> "isParamUsed", args |-> args, key |-> key]
    \/ \E name \in ToolIdentifiers :
            call = [fn |-> "getToolMetadata", name |-> name]
    \/ \E name \in ToolIdentifiers :
            call = [fn |-> "getToolParameters", name |-> name]
    \/ \E ps \in SeqsUpTo(SampleParts, MaxParts) :
            call = [fn |-> "CardProps", parts |-> ps]
    \/ \E n \in SampleResultLengths :
            call = [fn |-> "ResultPreview", result |-> ResultText(n)]
    \/ \E ps \in SeqsUpTo(PartialParts, MaxParts) :
            call = [fn |-> "MapperRun", parts |-> ps]
    \/ \E args \in HeaderArgSets :
            call = [fn |-> "getParamsSummary", args |-> args]
    \/ \E args \in LabelArgSets :
            call = [fn |-> "PrimaryLabel", args |-> args]
    \/ \E param \in AllParams, stored \in StoredSamples, other \in {Undefined, Num(0)} :
        \E raw \in StepInputs(param) :
            call = [fn |-> "onChange", param |-> param, raw |-> raw,
                    args |-> (IF stored = Undefined THEN EmptyObject
                              ELSE [k \in {param.key} |-> stored])
                             @@ (IF other = Undefined THEN EmptyObject
                                 ELSE [k \in {"other"} |-> other])]

InitPure ==
    /\ parts = [c \in CallIds |-> NoPart]
    /\ isExpanded = [c \in CallIds |-> FALSE]
    /\ isResultExpanded = [c \in CallIds |-> FALSE]
    /\ editedArgs = [c \in CallIds |-> EmptyObject]
    /\ hasUnsavedChanges = [c \in CallIds |-> FALSE]
    /\ editMode = [c \in CallIds |-> FALSE]
    /\ event = NoEvent
    /\ chatStatus = "ready"
    /\ chatInput = ""
    /\ InitCalls
    /\ ret = NoRet

Return(fn, value) ==
    /\ call.fn = fn
    /\ ~ret.done
    /\ ret' = [done |-> TRUE, value |-> value]
    /\ UNCHANGED <<cardVars, chatVars, call>>

ApplyIsParamUsed ==
    call.fn = "isParamUsed" /\ Return("isParamUsed", isParamUsed(call.args, call.key))

ApplyGetToolMetadata ==
    call.fn = "getToolMetadata" /\ Return("getToolMetadata", getToolMetadata(call.name))

ApplyGetToolParameters ==
    call.fn = "getToolParameters"
        /\ Return("getToolParameters", getToolParameters(call.name))

ApplyCardProps ==
    call.fn = "CardProps" /\ Return("CardProps", CardProps(call.parts))

ApplyResultPreview ==
    call.fn = "ResultPreview" /\ Return("ResultPreview", ResultPreview(call.result))

ApplyMapperRun ==
    call.fn = "MapperRun" /\ Return("MapperRun", MapperRun(call.parts))

\* the summary of a render of the collapsed card, and the view-mode
\* display of its arguments in the expanded card
ApplyGetParamsSummary ==
    call.fn = "getParamsSummary"
        /\ Return("getParamsSummary",
                  [raised |-> getParamsSummary(call.args).raised,
                   shown  |-> SummaryChips(call.args, FALSE),
                   views  |-> [k \in DOMAIN call.args |->
                                renderValue(ParamOf("exa_search", k), call.args)]])

\* the onChange of the input rendered for call.param: the ArgumentSet that
\* handleChange passes on
ApplyInputChange ==
    call.fn = "onChange"
        /\ Return("onChange",
                  handleChange(call.args, call.param.key,
                               InputValue(call.param, Get(call.args, call.param.key),
                                          call.raw)))

ApplyPrimaryLabel ==
    call.fn = "PrimaryLabel" /\ Return("PrimaryLabel", PrimaryLabel(call.args))

NextPure ==
    \/ ApplyIsParamUsed
    \/ ApplyGetToolMetadata
    \/ ApplyGetToolParameters
    \/ ApplyCardProps
    \/ ApplyResultPreview
    \/ ApplyMapperRun
    \/ ApplyGetParamsSummary
    \/ ApplyInputChange
    \/ ApplyPrimaryLabel

SpecPure == InitPure /\ [][NextPure]_vars

-----------------------------------------------------------------------------
(* Properties *)

Contains(s, sub) == IndexOf(s, sub) # 0

\* C2: an expanded result panel shows exactly the first min(L, 2000)
\* characters of a result of length L; when L > 2000 it also shows a
\* truncation notice that states the number L - 2000 of omitted characters,
\* and when L <= 2000 it shows no notice.
C2_PreviewStatesOmittedCount ==
    (call.fn = "ResultPreview" /\ ret.done) =>
        LET L     == Len(call.result)
            shown == ret.value.text
        IN  /\ Len(shown) = Min(L, 2000)
            /\ \A i \in 1..Len(shown) : CharAt(shown, i) = CharAt(call.result, i)
            /\ L > 2000 =>
                    /\ ret.value.notice # <<>>
                    /\ Contains(Join(ret.value.notice, ""), ToString(L - 2000))
            /\ L <= 2000 => ret.value.notice = <<>>

\* C7: a key is classified "unused" exactly when it is absent or its value
\* is undefined, null or the empty string; a key holding false or 0 (or any
\* other value) is classified "used".
C7_UnusedExactlyWhenAbsentOrEmpty ==
    (call.fn = "isParamUsed" /\ ret.done) =>
        LET absent == call.key \notin DOMAIN call.args
            empty  == ~absent /\ call.args[call.key] \in {Undefined, Null, Str("")}
        IN  /\ ~ret.value <=> (absent \/ empty)
            /\ (~absent /\ call.args[call.key] \in {Bool(FALSE), Num(0)}) => ret.value

\* a key holding 0 has been classified: it is "used"
C7_Witness ==
    /\ call.fn = "isParamUsed" /\ ret.done
    /\ call.key \in DOMAIN call.args
    /\ call.args[call.key] = Num(0)
    /\ ret.value

\* C9: for every tool identifier that is not a registered tool,
\* getToolMetadata returns a placeholder record whose parameter list is empty
\* and getToolParameters returns the empty sequence.
C9_UnknownToolYieldsEmptyParams ==
    (ret.done /\ call.fn \in {"getToolMetadata", "getToolParameters"}
        /\ call.name \notin RegisteredTools) =>
        IF call.fn = "getToolMetadata"
        THEN /\ ret.value.t = "object"
             /\ "availableParams" \in DOMAIN ret.value.v
             /\ ret.value.v.availableParams = <<>>
        ELSE ret.value = <<>>

\* the tool name and display status the claim gives a tool part
C10_Expected(part) ==
    LET tag   == part.type.v
        state == Get(part, "state")
    IN  [toolName |-> IF StartsWith(tag, "tool-")
                      THEN Str(SubSeq(tag, Len("tool-") + 1, Len(tag)))
                      ELSE Get(part, "toolName"),
         status   |-> CASE state \in {Str("input-streaming"), Str("input-available")}
                            -> "running"
                        [] state = Str("output-available") -> "completed"
                        [] state = Str("output-error")     -> "error"
                        [] OTHER                           -> "pending"]

C10_IsToolTag(part) ==
    StartsWith(part.type.v, "tool-") \/ part.type.v = "dynamic-tool"

\* C10: a message part is mapped to a tool invocation iff its type tag starts
\* with "tool-" or equals "dynamic-tool"; the toolName of a "tool-" part is
\* the tag without the prefix, that of a "dynamic-tool" part is its toolName
\* field; the displayStatus is running for input-streaming and
\* input-available, completed for output-available, error for output-error
\* and pending for anything else.
C10_ToolPartsMapped ==
    (call.fn = "CardProps" /\ ret.done) =>
        LET tools == SelectSeq(call.parts, C10_IsToolTag)
        IN  /\ Len(ret.value) = Len(tools)
            /\ \A i \in 1..Len(tools) :
                    /\ ret.value[i].toolName = C10_Expected(tools[i]).toolName
                    /\ ret.value[i].status = C10_Expected(tools[i]).status

\* the part "tool-exa_search" in state input-available has been mapped to
\* the tool exa_search with status running
C10_Witness ==
    /\ call.fn = "CardProps" /\ ret.done
    /\ Len(call.parts) = 2
    /\ call.parts[1].type = Str("text")
    /\ call.parts[2].type = Str("tool-exa_search")
    /\ Get(call.parts[2], "state") = Str("input-available")
    /\ Len(ret.value) = 1
    /\ ret.value[1].toolName = Str("exa_search")
    /\ ret.value[1].status = "running"

-----------------------------------------------------------------------------
(* Properties of the card *)

\* C1: when the upstream arguments (the args prop) of a card change while
\* its edit session is dirty, the edit buffer is left unchanged; when they
\* change while the session is clean, the edit buffer is reset to equal the
\* new upstream arguments.
C1_UpstreamUpdateRespectsDirty ==
    [][\A c \in CallIds :
            (Mounted(c) /\ Mounted(c)' /\ ArgsProp(c)' # ArgsProp(c)) =>
                IF hasUnsavedChanges[c]
                THEN editedArgs'[c] = editedArgs[c]
                ELSE editedArgs'[c] = ArgsProp(c)']_vars

\* an upstream update has changed the arguments of a dirty card, and the
\* buffer still holds the user's edit
C1_Witness ==
    \E c \in CallIds :
        /\ Mounted(c)
        /\ event.kind = "upstream" /\ event.card = c /\ event.prevKind = "paramChange"
        /\ hasUnsavedChanges[c]
        /\ Get(editedArgs[c], "query") = Str("rust")
        /\ Get(ArgsProp(c), "numResults") = Num(10)
        /\ Get(editedArgs[c], "numResults") = Undefined

\* C3: when the Parameter Editor leaves edit mode (a "done editing" event)
\* while the card's session is dirty, the re-run callback is called exactly
\* once, with the current edit buffer, and the session is clean afterwards.
C3_DoneEditingRerunsOnce ==
    [][\A c \in CallIds :
            (event'.kind = "editToggle" /\ event'.card = c
                /\ editMode[c] /\ hasUnsavedChanges[c]) =>
                /\ ~editMode'[c]
                /\ event'.reruns = <<editedArgs[c]>>
                /\ Len(event'.sends) = 1
                /\ ~hasUnsavedChanges'[c]]_vars

\* the editor has just left edit mode after a parameter change: one re-run
\* with the edited arguments was dispatched and the session is clean
C3_Witness ==
    \E c \in CallIds :
        /\ Mounted(c)
        /\ event.kind = "editToggle" /\ event.card = c /\ event.prevKind = "paramChange"
        /\ ~editMode[c]
        /\ Len(event.reruns) = 1
        /\ Get(event.reruns[1], "query") = Str("rust")
        /\ event.reruns[1] # ArgsProp(c)
        /\ ~hasUnsavedChanges[c]

\* C4: from a clean session, toggling edit mode on and then off with no
\* parameter change in between leaves the edit buffer equal to its
\* pre-toggle value, leaves the session clean, calls no re-run callback and
\* sends no message: each of the two toggles does, taken from a clean session.
C4_CleanToggleChangesNothing ==
    [][\A c \in CallIds :
            (event'.kind = "editToggle" /\ event'.card = c /\ ~hasUnsavedChanges[c]) =>
                /\ editedArgs'[c] = editedArgs[c]
                /\ ~hasUnsavedChanges'[c]
                /\ event'.reruns = <<>>
                /\ event'.sends = <<>>]_vars

\* edit mode was toggled on and directly off again on a clean card that
\* holds arguments: nothing was dispatched, the buffer is the upstream one
C4_Witness ==
    \E c \in CallIds :
        /\ Mounted(c)
        /\ event.kind = "editToggle" /\ event.card = c
        /\ event.prevKind = "editToggle" /\ event.prevCard = c
        /\ ~editMode[c]
        /\ ~hasUnsavedChanges[c]
        /\ event.reruns = <<>> /\ event.sends = <<>>
        /\ editedArgs[c] = ArgsProp(c)
        /\ Get(editedArgs[c], "query") = Str("rust ownership")

\* C5: the Parameter Editor offers the edit toggle and renders editable
\* inputs only if the card's displayStatus is completed or error, and every
\* parameter change of the user happens on a card in one of these statuses.
C5_EditOnlyWhenSettled ==
    \A c \in CallIds :
        Mounted(c) =>
            /\ (EditToggleOffered(c) \/ InputsRendered(c)) =>
                    StatusProp(c) \in {"completed", "error"}
            /\ (event.kind = "paramChange" /\ event.card = c) =>
                    StatusProp(c) \in {"completed", "error"}

\* a parameter has been changed on a card whose tool call failed
C5_Witness ==
    \E c \in CallIds :
        /\ Mounted(c)
        /\ InputsRendered(c)
        /\ event.kind = "paramChange" /\ event.card = c
        /\ StatusProp(c) = "error"

\* C8: a parameter change from the Parameter Editor marks the session dirty
\* and replaces the edit buffer with the new ArgumentSet, and nothing else:
\* no re-run callback, no message, and the upstream arguments, the expanded
\* flag and the result-expanded flag are unchanged.
C8_ParamChangeOnlyEditsBuffer ==
    [][\A c \in CallIds :
            (event'.kind = "paramChange" /\ event'.card = c) =>
                /\ hasUnsavedChanges'[c]
                /\ Len(event'.changes) = 1
                /\ editedArgs'[c] = event'.changes[1]
                /\ event'.reruns = <<>>
                /\ event'.sends = <<>>
                /\ parts' = parts
                /\ isExpanded' = isExpanded
                /\ isResultExpanded' = isResultExpanded
                /\ editMode' = editMode
                /\ \A d \in CallIds \ {c} :
                        /\ editedArgs'[d] = editedArgs[d]
                        /\ hasUnsavedChanges'[d] = hasUnsavedChanges[d]]_vars

\* a parameter change has just replaced the buffer of a card whose result is
\* expanded: the buffer differs from the upstream arguments, nothing was sent
C8_Witness ==
    \E c \in CallIds :
        /\ Mounted(c)
        /\ event.kind = "paramChange" /\ event.card = c
        /\ hasUnsavedChanges[c]
        /\ editedArgs[c] = event.changes[1]
        /\ editedArgs[c] # ArgsProp(c)
        /\ isResultExpanded[c]
        /\ event.reruns = <<>> /\ event.sends = <<>>

-----------------------------------------------------------------------------
(* Properties of the array input *)

\* the positions that bound the comma-separated segments of s
C6_Cuts(s) == {0, Len(s) + 1} \cup {i \in 1..Len(s) : CharAt(s, i) = ","}

\* the k-th smallest element of a set of numbers
C6_Nth(S, k) == CHOOSE x \in S : Cardinality({y \in S : y < x}) = k - 1

\* the segments of s between its commas, in order
C6_Segments(s) ==
    LET cuts == C6_Cuts(s)
    IN  [k \in 1..(Cardinality(cuts) - 1) |->
            SubSeq(s, C6_Nth(cuts, k) + 1, C6_Nth(cuts, k + 1) - 1)]

\* t from its first to its last character that is not white space
C6_Strip(t) ==
    LET keep == {i \in 1..Len(t) : CharAt(t, i) \notin WhiteSpace}
    IN  IF keep = {} THEN ""
        ELSE SubSeq(t, C6_Nth(keep, 1), C6_Nth(keep, Cardinality(keep)))

C6_NonEmpty(t) == t # ""

\* the sequence the claim gives the text s
C6_Expected(s) ==
    LET segs == C6_Segments(s)
    IN  SelectSeq([k \in 1..Len(segs) |-> C6_Strip(segs[k])], C6_NonEmpty)

C6_ArrayEdit(c) ==
    /\ event'.kind = "paramChange" /\ event'.card = c
    /\ ParamOf(ToolNameProp(c), event'.key).type = "array"

\* C6 as stated: editing an array parameter with text s stores the segments
\* of s between commas, trimmed, without the empty ones, in order and with
\* duplicates, and reading it back yields that sequence; when that sequence
\* is empty the key is removed from the ArgumentSet (it is absent).
C6_EmptyArrayRemovesKey ==
    [][\A c \in CallIds :
            C6_ArrayEdit(c) =>
                LET expected == C6_Expected(event'.raw)
                    stored   == Get(editedArgs'[c], event'.key)
                IN  IF expected # <<>>
                    THEN /\ stored = Arr(expected)
                         /\ ParseArrayInput(ArrayInputText(stored)) = expected
                    ELSE event'.key \notin DOMAIN editedArgs'[c]]_vars

\* C6 as amended: editing an array parameter with text s stores the segments
\* of s between commas, trimmed, without the empty ones, in order and with
\* duplicates, and reading it back yields that sequence; when that sequence
\* is empty the key stays a key of the ArgumentSet and holds undefined: it
\* reads as not set, is left out of the serialised arguments, and is never
\* an empty sequence.
C6_EmptyArrayStoresUndefined ==
    [][\A c \in CallIds :
            C6_ArrayEdit(c) =>
                LET expected == C6_Expected(event'.raw)
                    stored   == Get(editedArgs'[c], event'.key)
                IN  IF expected # <<>>
                    THEN /\ stored = Arr(expected)
                         /\ ParseArrayInput(ArrayInputText(stored)) = expected
                    ELSE /\ event'.key \in DOMAIN editedArgs'[c]
                         /\ stored = Undefined
                         /\ event'.key \notin DOMAIN JsonOfArgs(editedArgs'[c])
                         /\ ~isParamUsed(editedArgs'[c], event'.key)]_vars

\* the text "a, b, b" has been entered into the includeDomains input and
\* the buffer holds the sequence a, b, b
C6_Witness ==
    \E c \in CallIds :
        /\ Mounted(c)
        /\ event.kind = "paramChange" /\ event.card = c
        /\ event.key = "includeDomains" /\ event.raw = "a, b, b"
        /\ Get(editedArgs[c], "includeDomains") = Arr(<<"a", "b", "b">>)
        /\ ArrayInputText(Get(editedArgs[c], "includeDomains")) = "a, b, b"

-----------------------------------------------------------------------------
(* Properties of the Conversation Mapper on partial parts *)

C11_States == {Str(st) : st \in LifecycleStates}

\* C11: the mapper does not raise on a partially populated tool part: a part
\* with no input field maps to the empty ArgumentSet, a part with no output
\* maps to an undefined result, a part with a missing or unrecognized state
\* maps to the pending display status; there is exactly one record per tool
\* part, in part order.
C11_PartialPartsMapToDefaults ==
    (call.fn = "MapperRun" /\ ret.done) =>
        LET tools == SelectSeq(call.parts, C10_IsToolTag)
            invs  == ret.value.invs
            cards == ret.value.cards
        IN  /\ ~ret.value.raised
            /\ Len(invs) = Len(tools) /\ Len(cards) = Len(tools)
            /\ \A i \in 1..Len(tools) :
                    /\ invs[i].toolCallId = Get(tools[i], "toolCallId")
                    /\ invs[i].state = Get(tools[i], "state")
                    /\ invs[i].result = Get(tools[i], "output")
                    /\ "input" \in DOMAIN tools[i] /\ tools[i].input.t = "object"
                            => invs[i].args = tools[i].input
                    /\ "input" \notin DOMAIN tools[i] =>
                            /\ invs[i].args = Obj(EmptyObject)
                            /\ cards[i].args = Obj(EmptyObject)
                    /\ "output" \notin DOMAIN tools[i] => cards[i].result = Undefined
                    /\ Get(tools[i], "state") \notin C11_States
                            => cards[i].status = "pending"

\* the scenario of the spec: a dynamic-tool part of exa_contents with no
\* input, no output and no state yet, after a part with all of them
C11_Witness ==
    /\ call.fn = "MapperRun" /\ ret.done
    /\ Len(call.parts) = 2
    /\ call.parts[1].type = Str("tool-exa_search")
    /\ "input" \in DOMAIN call.parts[1] /\ "output" \in DOMAIN call.parts[1]
    /\ call.parts[2].type = Str("dynamic-tool")
    /\ Get(call.parts[2], "toolName") = Str("exa_contents")
    /\ DOMAIN call.parts[2] \cap {"input", "output", "state"} = {}
    /\ ~ret.value.raised
    /\ Len(ret.value.invs) = 2
    /\ ret.value.invs[2].args = Obj(EmptyObject)
    /\ ret.value.cards[2].status = "pending"
    /\ ret.value.cards[2].result = Undefined

-----------------------------------------------------------------------------
(* Properties of the card header *)

C12_ResultsChips(shown) ==
    SelectSeq(shown, LAMBDA chip : StartsWith(chip, "results: "))

\* C12 (for a render whose summary completes): in the summary chips of a
\* collapsed card, a numResults equal to the
\* default 5 produces no chip, any other set numResults value n (a number)
\* produces the chip "results: n", and an unset numResults produces no chip.
C12_ResultsChipUnlessDefault ==
    (call.fn = "getParamsSummary" /\ ret.done /\ ~ret.value.raised) =>
        LET n     == Get(call.args, "numResults")
            chips == C12_ResultsChips(ret.value.shown)
        IN  /\ n = Num(5) => chips = <<>>
            /\ (n.t = "number" /\ n # Num(5)) => chips = <<"results: " \o ToString(n.v)>>
            /\ n \in {Undefined, Null} => chips = <<>>

-----------------------------------------------------------------------------
(* Properties of the re-run *)

\* the text is the prompt for this tool and these arguments: it embeds the
\* tool name and a JSON document with exactly the defined members of args
C13_Embeds(text, toolName, args) ==
    /\ Len(text) = 4
    /\ text[2] = toolName
    /\ DOMAIN text[4] \subseteq DOMAIN args
    /\ \A k \in DOMAIN args :
            IF args[k] = Undefined THEN k \notin DOMAIN text[4]
            ELSE k \in DOMAIN text[4] /\ text[4][k] = args[k]

\* C13: every re-run a card dispatches makes exactly one sendMessage call,
\* of a new text message (no id of an existing message to replace) whose text
\* embeds the tool name and the JSON serialization of the edited arguments;
\* the step invokes no tool and leaves every delivered tool part, with its
\* recorded arguments, as it was.
C13_RerunIsOneNewMessage ==
    [][\A c \in CallIds :
            (event'.card = c /\ Mounted(c)) =>
                /\ Len(event'.sends) = Len(event'.reruns)
                /\ Len(event'.reruns) <= 1
                /\ event'.kind \in {"rerunClick"} => Len(event'.reruns) = 1
                /\ \A i \in 1..Len(event'.reruns) :
                        /\ event'.reruns[i] = editedArgs[c]
                        /\ DOMAIN event'.sends[i] = {"text"}
                        /\ C13_Embeds(event'.sends[i].text, ToolNameProp(c), editedArgs[c])
                        /\ parts' = parts]_vars

\* a manual re-run after an edit of numResults has sent one message for
\* exa_search whose document holds the edited value, not the upstream one
C13_Witness ==
    \E c \in CallIds :
        /\ Mounted(c)
        /\ event.kind = "rerunClick" /\ event.card = c /\ event.prevKind = "paramChange"
        /\ Len(event.sends) = 1
        /\ event.sends[1].text[2] = "exa_search"
        /\ Get(event.sends[1].text[4], "numResults") = Num(0)
        /\ Get(ArgsProp(c), "numResults") = Num(10)

-----------------------------------------------------------------------------
(* Properties of the editor's onChange *)

\* C14: every edit of one key k calls onChange once, with a replacement
\* ArgumentSet that has the keys of the previous set and k, equals the
\* previous set on every key other than k and holds the new value for k;
\* the replacement becomes the edit buffer, so a later edit of another key
\* keeps the earlier edit.
C14_EditReplacesOneKey ==
    [][\A c \in CallIds :
            (event'.kind = "paramChange" /\ event'.card = c) =>
                LET k   == event'.key
                    old == editedArgs[c]
                    new == event'.changes[1]
                IN  /\ Len(event'.changes) = 1
                    /\ DOMAIN new = DOMAIN old \cup {k}
                    /\ \A j \in DOMAIN old \ {k} : new[j] = old[j]
                    /\ new[k] = InputValue(ParamOf(ToolNameProp(c), k), Get(old, k), event'.raw)
                    /\ editedArgs'[c] = new
                    /\ (event.kind = "paramChange" /\ event.card = c /\ event.key # k) =>
                            /\ event.key \in DOMAIN new
                            /\ new[event.key] = event.changes[1][event.key]]_vars

\* numResults has been edited right after query: the buffer holds both
\* edits, and both differ from the upstream arguments
C14_Witness ==
    \E c \in CallIds :
        /\ Mounted(c)
        /\ event.kind = "paramChange" /\ event.card = c /\ event.prevKind = "paramChange"
        /\ event.key = "numResults"
        /\ Get(editedArgs[c], "numResults") = Num(0)
        /\ Get(editedArgs[c], "query") = Str("rust")
        /\ Get(ArgsProp(c), "query") = Str("rust ownership")
        /\ Get(ArgsProp(c), "numResults") = Num(10)

-----------------------------------------------------------------------------
(* Properties of the inputs *)

\* the key reads as not set: absent, undefined, null or the empty string
C15_Unused(args, key) ==
    key \notin DOMAIN args \/ args[key] \in {Undefined, Null, Str("")}

\* C15: choosing "not set" in a select and emptying a number, text or date
\* input leave the key unused, never holding "", 0 or NaN; entering the
\* number 0 stores 0 and the key is used; a boolean toggle stores exactly
\* true or false (the negation of what it showed).
C15_ClearingLeavesKeyUnused ==
    (call.fn = "onChange" /\ ret.done) =>
        LET type == call.param.type
            key  == call.param.key
            new  == Get(ret.value, key)
        IN  /\ (type \in {"select", "number", "text", "date"} /\ call.raw = "") =>
                    /\ C15_Unused(ret.value, key)
                    /\ ~isParamUsed(ret.value, key)
                    /\ new \notin {Str(""), Num(0)}
            /\ (type = "number" /\ call.raw = "0") =>
                    /\ new = Num(0)
                    /\ isParamUsed(ret.value, key)
            /\ (type \in {"select", "text", "date"} /\ call.raw # "") => new = Str(call.raw)
            /\ type = "boolean" =>
                    /\ new \in {Bool(TRUE), Bool(FALSE)}
                    /\ new = Bool(~Truthy(Get(call.args, key)))
                    /\ isParamUsed(ret.value, key)

\* the select of category, showing "news", has been set to "not set": the
\* key is unused and the other key of the set is untouched
C15_Witness ==
    /\ call.fn = "onChange" /\ ret.done
    /\ call.param.type = "select" /\ call.param.key = "category"
    /\ Get(call.args, "category") = Str("news")
    /\ call.raw = ""
    /\ Get(ret.value, "category") = Undefined
    /\ Get(ret.value, "other") = Num(0)

-----------------------------------------------------------------------------
(* Properties of the two re-run paths *)

\* the manual re-run button has just been clicked on card c, right after an
\* edit (so on a dirty session), the editor is still in edit mode, and the
\* next step toggles it out of edit mode
C16_ManualThenDone(c) ==
    /\ event.kind = "rerunClick" /\ event.card = c /\ event.prevKind = "paramChange"
    /\ editMode[c]
    /\ event'.kind = "editToggle" /\ event'.card = c

\* C16 as stated: with a dirty session and no further edit, clicking the
\* manual re-run button and then toggling out of edit mode dispatches the
\* re-run callback twice, once per path, for the same argument set.
C16_BothPathsFire ==
    [][\A c \in CallIds :
            C16_ManualThenDone(c) =>
                /\ Len(event.reruns) = 1
                /\ Len(event'.reruns) = 1
                /\ event'.reruns[1] = event.reruns[1]]_vars

\* C16 as amended: with a dirty session and no further edit, clicking the
\* manual re-run button dispatches the re-run callback once, with the edited
\* argument set, and leaves the session clean; toggling out of edit mode
\* then dispatches nothing, so the two paths together dispatch once.
C16_ManualRerunPreemptsDoneEditing ==
    [][\A c \in CallIds :
            C16_ManualThenDone(c) =>
                /\ Len(event.reruns) = 1
                /\ ~hasUnsavedChanges[c]
                /\ event'.reruns = <<>> /\ event'.sends = <<>>
                /\ ~hasUnsavedChanges'[c]
                /\ ~editMode'[c]]_vars

\* the editor has been toggled out of edit mode right after a manual re-run
\* that dispatched an edited argument set: the toggle dispatched nothing
C16_Witness ==
    \E c \in CallIds :
        /\ Mounted(c)
        /\ event.kind = "editToggle" /\ event.card = c
        /\ event.prevKind = "rerunClick" /\ event.prevCard = c
        /\ Len(event.prevReruns) = 1
        /\ Get(event.prevReruns[1], "query") = Str("rust")
        /\ event.prevReruns[1] # ArgsProp(c)
        /\ ~editMode[c]
        /\ event.reruns = <<>>

-----------------------------------------------------------------------------
(* Properties of rendering *)

\* C17: rendering is total: for every stored argument value, also one whose
\* type does not match its descriptor (a string under includeDomains), the
\* view rendering produces a display and the collapsed-view summary is
\* computed, without a throw.
C17_RenderingNeverThrows ==
    (call.fn = "getParamsSummary" /\ ret.done) =>
        /\ ~ret.value.raised
        /\ \A k \in DOMAIN ret.value.views : Len(ret.value.views[k]) > 0

-----------------------------------------------------------------------------
(* Properties of expanding and collapsing *)

-----------------------------------------------------------------------------
(* Properties of the primary label *)

\* the candidates of the label, in the order of preference: the query, the
\* url and the first of the urls that are present (hold a non-empty text)
C19_Candidates(args) ==
    LET texts == <<Get(args, "query"), Get(args, "url"),
                   IF Get(args, "urls").t = "array" /\ Get(args, "urls").v # <<>>
                   THEN Str(Get(args, "urls").v[1]) ELSE Undefined>>
    IN  SelectSeq(texts, LAMBDA x : x.t = "string" /\ x.v # "")

\* C19: the primary label is the first present of the upstream arguments
\* query, url and the first element of urls, and no label is shown when all
\* are absent; a label of at most 60 characters is shown in full without an
\* ellipsis, a longer one as exactly its first 60 characters and then "...".
C19_LabelTruncatedAtSixty ==
    (call.fn = "PrimaryLabel" /\ ret.done) =>
        LET cands == C19_Candidates(call.args)
        IN  IF cands = <<>> THEN ret.value = <<>>
            ELSE LET s == cands[1].v
                 IN  /\ Len(ret.value) = 1
                     /\ Len(s) <= 60 => ret.value[1] = s
                     /\ Len(s) > 60 =>
                            /\ Len(ret.value[1]) = 63
                            /\ SubSeq(ret.value[1], 1, 60) = SubSeq(s, 1, 60)
                            /\ SubSeq(ret.value[1], 61, 63) = "..."

\* a query of 61 characters, with a url present too, has been labelled: its
\* first 60 characters and the ellipsis
C19_Witness ==
    /\ call.fn = "PrimaryLabel" /\ ret.done
    /\ Get(call.args, "query").t = "string" /\ Len(Get(call.args, "query").v) = 61
    /\ Truthy(Get(call.args, "url"))
    /\ Len(ret.value) = 1
    /\ Len(ret.value[1]) = 63
    /\ CharAt(ret.value[1], 1) = "q"
    /\ SubSeq(ret.value[1], 58, 63) = "xxx..."

-----------------------------------------------------------------------------
(* Properties of two cards *)

\* C20: an action on one card (header toggle, result toggle, parameter edit,
\* entering or leaving edit mode, re-run) leaves every other card's expanded
\* flag, result flag, edit buffer, dirty flag, editor mode and tool part
\* unchanged; the buffer an edit replaces and a re-run dispatches is the
\* acting card's own.
C20_CardsAreIndependent ==
    [][\A c \in CallIds :
            /\ event'.card # c =>
                    /\ isExpanded'[c] = isExpanded[c]
                    /\ isResultExpanded'[c] = isResultExpanded[c]
                    /\ editedArgs'[c] = editedArgs[c]
                    /\ hasUnsavedChanges'[c] = hasUnsavedChanges[c]
                    /\ editMode'[c] = editMode[c]
                    /\ parts'[c] = parts[c]
            /\ (event'.card = c /\ event' # event) =>
                    /\ \A i \in 1..Len(event'.reruns) : event'.reruns[i] = editedArgs[c]
                    /\ \A i \in 1..Len(event'.changes) : editedArgs'[c] = event'.changes[i]]_vars

\* two cards with the same upstream arguments, both in edit mode: the query
\* of the second has been edited, and the first still holds the upstream
\* arguments, clean
C20_Witness ==
    /\ Mounted("call_1") /\ Mounted("call_2")
    /\ event.kind = "paramChange" /\ event.card = "call_2"
    /\ ArgsProp("call_1") = ArgsProp("call_2")
    /\ isExpanded["call_1"] /\ editMode["call_1"] /\ ~hasUnsavedChanges["call_1"]
    /\ editedArgs["call_1"] = ArgsProp("call_1")
    /\ hasUnsavedChanges["call_2"]
    /\ Get(editedArgs["call_2"], "query") = Str("rust")
    /\ Get(editedArgs["call_1"], "query") = Str("rust ownership")


\* C21: the page never calls sendMessage while a request is in flight:
\* whenever a handler (the form's submit, a card's re-run button, or leaving
\* edit mode with unsaved changes) calls sendMessage, the chat status before
\* the call is neither "submitted" nor "streaming".
C21_NoSendWhileInFlight ==
    [][event'.sends # <<>> => ~isLoading]_vars


\* C22: whenever a card dispatches a re-run (from the re-run button or from
\* leaving edit mode), the session is clean afterwards and the edit buffer
\* equals the invocation's upstream arguments, whatever edited values were
\* dispatched; and a manual re-run of a card whose session is clean (so with
\* no edit since the last re-run) dispatches the upstream arguments.
C22_RerunResetsBufferToUpstream ==
    [][\A c \in CallIds :
          (event'.card = c /\ event'.reruns # <<>>) =>
              /\ ~hasUnsavedChanges'[c]
              /\ editedArgs'[c] = ArgsProp(c)
              /\ parts'[c] = parts[c]
              /\ (~hasUnsavedChanges[c] => event'.reruns = <<ArgsProp(c)>>)]_vars

\* leaving edit mode has dispatched the edited arguments, and the manual
\* re-run that followed has dispatched the upstream arguments
C22_Witness ==
    \E c \in CallIds :
        /\ event.kind = "rerunClick" /\ event.card = c
        /\ event.prevKind = "editToggle" /\ event.prevCard = c
        /\ Len(event.prevReruns) = 1
        /\ Get(event.prevReruns[1], "query") = Str("rust")
        /\ Get(ArgsProp(c), "query") # Str("rust")
        /\ event.reruns = <<ArgsProp(c)>>
        /\ editedArgs[c] = ArgsProp(c)
        /\ ~hasUnsavedChanges[c]


\* C23: in every reachable state of a card with a re-run callback, a dirty
\* session implies that the card is expanded and its Parameter Editor is in
\* edit mode: unsaved edits never stay in the buffer once edit mode is left.
C23_DirtyImpliesEditing ==
    \A c \in CallIds :
        (Mounted(c) /\ HasOnRerun(c) /\ hasUnsavedChanges[c]) =>
            (isExpanded[c] /\ editMode[c])

=============================================================================
